---- MODULE Spec2Model ----
(***************************************************************************)
(* Receipt processing queue of receipt_analysis_system: the receipt_tasks  *)
(* table driven by the polling workers of app/worker.py, the extraction    *)
(* pipeline of app/services/receipt_processor.py and the upload/reprocess  *)
(* endpoints of app/api/receipts.py.  The store is SQLite (app/core/db.py):*)
(* every SQL statement and every committed transaction is one atomic step, *)
(* and a reader outside a transaction sees the last committed state.       *)
(* Times are seconds on one wall clock.  The bookkeeping column updated_at *)
(* is left out; an extraction result is represented by the id of the task  *)
(* whose execution produced it.                                            *)
(***************************************************************************)
EXTENDS Integers, Sequences, FiniteSets, TLC

\* ---------------------------------------------------------------- bounds
MaxReceipts == 1
MaxTasks == 2
MaxTime == 181
ItemsPerResult == 2

\* ------------------------------------------------------ program constants
MAX_ATTEMPTS == 3
LOCK_TIMEOUT_SECONDS == 180
SecondsPerMinute == 60

\* clock advances observed between two steps (seconds)
TickSteps == {60, 179, 181}
\* the clock observed every half lock timeout
CoarseTickSteps == {LOCK_TIMEOUT_SECONDS \div 2}

Workers == {"worker-1", "worker-2"}
Requests == {"req-1"}
\* the requests that may be in flight at once
AllRequests == {"req-1", "req-2"}

NULL == "NULL"
NoTime == -1
NoTag == 0

UploadCurrencies == {"AUTO"}
ReprocessCurrencies == {NULL}
\* currency query parameters a reprocess request supplies explicitly
SuppliedCurrencies == {"eur"}
\* currencies two calls of the extractor may return for the same image
ReexecCurrencies == {"eur", "usd"}
\* what the extractor may put in parsed.currency, a free string or null, and
\* the currencies an upload may request
ExtractorCurrencies == {NULL, "", " ", "eur", "USD", " chf ", "gbp"}
RequestedCurrencies == {"AUTO", "EUR"}
ParsedCurrencies == {"eur"}

VARIABLES
  now,            \* wall clock, seconds
  receipts,       \* table receipts: sequence of rows, id = index
  receipt_items,  \* table receipt_items: per receipt id, the sequence of its rows
  tasks,          \* table receipt_tasks: sequence of rows, id = index
  wpc,            \* per worker: position in main()'s loop
  wnow,           \* per worker: the `now` taken at the top of the iteration
  row,            \* per worker: the row returned by CLAIM_SQL
  loaded,         \* per worker: attribute values the session last loaded for the receipt
  parsed,         \* per worker: currency of the structurer's result
  werr,           \* per worker: str(e) handed to mark_failed
  reqs,           \* per reprocess request: position and session state
  reclaimed       \* history: ids of tasks REQUEUE_STALE_SQL has requeued

vars == <<now, receipts, receipt_items, tasks, wpc, wnow, row, loaded, parsed, werr, reqs, reclaimed>>

NoRow == [id |-> 0, receipt_id |-> 0, receipt_version |-> 0, attempts |-> 0]
NoReceipt == [status |-> NULL, version |-> 0, currency |-> NULL, detected_currency |-> NULL,
              category |-> NULL, error |-> NULL, raw_ocr_text |-> NoTag, merchant |-> NoTag]
IdleReq == [pc |-> "idle", rid |-> 0, loaded |-> NoReceipt, staged |-> NoReceipt]

TaskIds == 1..Len(tasks)
ReceiptIds == 1..Len(receipts)
\* the tasks created for receipt r: one by the upload, one by every
\* successful reprocess
TasksOf(r) == {t \in TaskIds : tasks[t].receipt_id = r}

\* ------------------------------------------------------------- helpers
RECURSIVE Pow2(_)
Pow2(n) == IF n <= 0 THEN 1 ELSE 2 * Pow2(n - 1)

\* str.upper() on the currency tokens the model feeds in
Upper(c) ==
  CASE c = "eur" -> "EUR"
    [] c = "usd" -> "USD"
    [] c = "gbp" -> "GBP"
    [] c = "chf" -> "CHF"
    [] c = " chf " -> " CHF "
    [] OTHER -> c

\* str.strip on the values the model draws
Strip(c) ==
  CASE c = " chf " -> "chf"
    [] c = " CHF " -> "CHF"
    [] c = " " -> ""
    [] OTHER -> c

\* _norm_currency without the strip
NormCurrency_NoStrip(c) ==
  IF c = NULL \/ c = "" THEN NULL
  ELSE IF Upper(c) \in {"USD", "EUR", "CHF", "RUB"} THEN Upper(c) ELSE NULL

NormCurrency(c) ==
  IF c = NULL \/ c = "" THEN NULL
  ELSE IF Upper(Strip(c)) \in {"USD", "EUR", "CHF", "RUB"} THEN Upper(Strip(c)) ELSE NULL

\* The unit of work flushes an attribute only when its value differs from
\* the one the session loaded.
Put(db, snap, f, v) == IF snap[f] = v THEN db ELSE [db EXCEPT ![f] = v]

NewTask_PreviousVersion(rid, ver, t) ==
  [receipt_id |-> rid, receipt_version |-> ver - 1, status |-> "queued", attempts |-> 0,
   run_after |-> t, locked_at |-> NoTime, locked_by |-> NULL, last_error |-> NULL,
   created_at |-> t]

\* a ReceiptTask as the producers construct it, with the column defaults
NewTask(rid, ver, t) ==
  [receipt_id |-> rid, receipt_version |-> ver, status |-> "queued", attempts |-> 0,
   run_after |-> t, locked_at |-> NoTime, locked_by |-> NULL, last_error |-> NULL,
   created_at |-> t]

ResultItems(tag) == [k \in 1..ItemsPerResult |-> <<tag, k>>]

\* ------------------------------------------------------------ producers
Upload_ReceiptOnly(c) ==
  /\ Len(receipts) < MaxReceipts
  /\ Len(tasks) + Cardinality({q \in AllRequests : reqs[q].pc = "mutated"}) < MaxTasks
  /\ receipts' = Append(receipts,
        [status |-> "queued", version |-> 1, currency |-> c, detected_currency |-> NULL,
         category |-> "OTHER", error |-> NULL, raw_ocr_text |-> NoTag, merchant |-> NoTag])
  /\ receipt_items' = Append(receipt_items, <<>>)
  /\ UNCHANGED <<now, tasks, wpc, wnow, row, loaded, parsed, werr, reqs, reclaimed>>

\* POST /receipts/upload: the receipt and its task, committed together
Upload(c) ==
  /\ Len(receipts) < MaxReceipts
  /\ Len(tasks) + Cardinality({q \in AllRequests : reqs[q].pc = "mutated"}) < MaxTasks
  /\ receipts' = Append(receipts,
        [status |-> "queued", version |-> 1, currency |-> c, detected_currency |-> NULL,
         category |-> "OTHER", error |-> NULL, raw_ocr_text |-> NoTag, merchant |-> NoTag])
  /\ receipt_items' = Append(receipt_items, <<>>)
  /\ tasks' = Append(tasks, NewTask(Len(receipts) + 1, 1, now))
  /\ UNCHANGED <<now, wpc, wnow, row, loaded, parsed, werr, reqs, reclaimed>>

\* the upload's transaction raises: db.rollback(), HTTP 500
UploadFails(q) ==
  /\ reqs[q].pc = "idle"
  /\ reqs' = [reqs EXCEPT ![q] = [IdleReq EXCEPT !.pc = "upload_failed"]]
  /\ UNCHANGED <<now, receipts, receipt_items, tasks, wpc, wnow, row, loaded, parsed, werr, reclaimed>>

\* the failed upload has returned
UploadReturn(q) ==
  /\ reqs[q].pc = "upload_failed"
  /\ reqs' = [reqs EXCEPT ![q] = IdleReq]
  /\ UNCHANGED <<now, receipts, receipt_items, tasks, wpc, wnow, row, loaded, parsed, werr, reclaimed>>

\* -------------------------------------------------------------- worker
\* w has a claimed row in hand
Holding(w) == row[w].id # 0

UpdTask(t, new) == [tasks EXCEPT ![t] = new]
UpdReceipt(r, new) == [receipts EXCEPT ![r] = new]

Goto(w, pc) == wpc' = [wpc EXCEPT ![w] = pc]

IsStale_NoTimeout(tk, staleBefore) ==
  /\ tk.status = "processing"
  /\ tk.locked_at # NoTime
  /\ tk.locked_at <= staleBefore + LOCK_TIMEOUT_SECONDS

\* REQUEUE_STALE_SQL's WHERE clause
IsStale(tk, staleBefore) ==
  /\ tk.status = "processing"
  /\ tk.locked_at # NoTime
  /\ tk.locked_at <= staleBefore

RequeueStaleRows_Deferred(ts, n, staleBefore) ==
  [t \in 1..Len(ts) |->
     IF IsStale(ts[t], staleBefore)
     THEN [ts[t] EXCEPT !.status = "queued", !.locked_at = NoTime, !.locked_by = NULL,
                        !.run_after = n + LOCK_TIMEOUT_SECONDS]
     ELSE ts[t]]

RequeueStaleRows_ResetsAttempts(ts, n, staleBefore) ==
  [t \in 1..Len(ts) |->
     IF IsStale(ts[t], staleBefore)
     THEN [ts[t] EXCEPT !.status = "queued", !.locked_at = NoTime, !.locked_by = NULL,
                        !.run_after = n, !.attempts = 0]
     ELSE ts[t]]

RequeueStaleRows_CountsReclaim(ts, n, staleBefore) ==
  [t \in 1..Len(ts) |->
     IF IsStale(ts[t], staleBefore)
     THEN [ts[t] EXCEPT !.run_after = n, !.attempts = ts[t].attempts + 1]
     ELSE ts[t]]

\* REQUEUE_STALE_SQL applied to the whole table
RequeueStaleRows(ts, n, staleBefore) ==
  [t \in 1..Len(ts) |->
     IF IsStale(ts[t], staleBefore)
     THEN [ts[t] EXCEPT !.status = "queued", !.locked_at = NoTime, !.locked_by = NULL,
                        !.run_after = n]
     ELSE ts[t]]

\* top of the loop: take `now`, requeue the stale leases, commit
RequeueStale(w) ==
  /\ wpc[w] = "poll"
  /\ wnow' = [wnow EXCEPT ![w] = now]
  /\ tasks' = RequeueStaleRows(tasks, now, now - LOCK_TIMEOUT_SECONDS)
  /\ reclaimed' = reclaimed \cup {t \in TaskIds : IsStale(tasks[t], now - LOCK_TIMEOUT_SECONDS)}
  /\ Goto(w, "claim")
  /\ UNCHANGED <<now, receipts, receipt_items, row, loaded, parsed, werr, reqs>>

Eligible_NotYetDue(ts, n) == {t \in 1..Len(ts) : ts[t].status = "queued"}

Eligible_AnyStatus(ts, n) == {t \in 1..Len(ts) : ts[t].run_after <= n}

\* the rows CLAIM_SQL's inner SELECT ranges over
Eligible(ts, n) == {t \in 1..Len(ts) : ts[t].status = "queued" /\ ts[t].run_after <= n}

ClaimCandidates_Unordered(ts, n) == Eligible(ts, n)

\* ORDER BY created_at LIMIT 1: a row with the least created_at
ClaimCandidates(ts, n) ==
  {t \in Eligible(ts, n) : \A u \in Eligible(ts, n) : ts[t].created_at <= ts[u].created_at}

ClaimedRow_AttemptsKept(tk, w, n) ==
  [tk EXCEPT !.status = "processing", !.locked_at = n, !.locked_by = w]

\* CLAIM_SQL's SET clause
ClaimedRow(tk, w, n) ==
  [tk EXCEPT !.status = "processing", !.locked_at = n, !.locked_by = w,
             !.attempts = tk.attempts + 1]

Claim(w) ==
  /\ wpc[w] = "claim"
  /\ ClaimCandidates(tasks, wnow[w]) # {}
  /\ \E t \in ClaimCandidates(tasks, wnow[w]) :
       /\ tasks' = UpdTask(t, ClaimedRow(tasks[t], w, wnow[w]))
       /\ row' = [row EXCEPT ![w] = [id |-> t,
                                     receipt_id |-> tasks'[t].receipt_id,
                                     receipt_version |-> tasks'[t].receipt_version,
                                     attempts |-> tasks'[t].attempts]]
  /\ wnow' = [wnow EXCEPT ![w] = 0]
  /\ Goto(w, "set_processing")
  /\ UNCHANGED <<now, receipts, receipt_items, loaded, parsed, werr, reqs, reclaimed>>

\* an iteration that sleeps without looking at what the claim returned
ClaimNone_SleepsWithWork(w) ==
  /\ wpc[w] = "claim"
  /\ wnow' = [wnow EXCEPT ![w] = 0]
  /\ Goto(w, "poll")
  /\ UNCHANGED <<now, receipts, receipt_items, tasks, row, loaded, parsed, werr, reqs, reclaimed>>

\* no row returned: sleep POLL_SECONDS and start the next iteration
ClaimNone(w) ==
  /\ wpc[w] = "claim"
  /\ ClaimCandidates(tasks, wnow[w]) = {}
  /\ wnow' = [wnow EXCEPT ![w] = 0]
  /\ Goto(w, "poll")
  /\ UNCHANGED <<now, receipts, receipt_items, tasks, row, loaded, parsed, werr, reqs, reclaimed>>

SetReceiptProcessing(w) ==
  /\ wpc[w] = "set_processing"
  /\ receipts' = UpdReceipt(row[w].receipt_id,
                            [receipts[row[w].receipt_id] EXCEPT !.status = "processing"])
  /\ Goto(w, "load")
  /\ UNCHANGED <<now, receipt_items, tasks, wnow, row, loaded, parsed, werr, reqs, reclaimed>>

\* the store raises inside set_receipt_processing: main()'s except clause
\* rolls back and runs mark_failed
SetReceiptProcessingFails(w) ==
  /\ wpc[w] = "set_processing"
  /\ werr' = [werr EXCEPT ![w] = "store error"]
  /\ Goto(w, "mark_failed")
  /\ UNCHANGED <<now, receipts, receipt_items, tasks, wnow, row, loaded, parsed, reqs, reclaimed>>

\* process_receipt: load the receipt and compare its version
ProcessLoad(w) ==
  /\ wpc[w] = "load"
  /\ IF receipts[row[w].receipt_id].version # row[w].receipt_version
     THEN /\ Goto(w, "mark_done")
          /\ UNCHANGED loaded
     ELSE /\ Goto(w, "begin")
          /\ loaded' = [loaded EXCEPT ![w] = receipts[row[w].receipt_id]]
  /\ UNCHANGED <<now, receipts, receipt_items, tasks, wnow, row, parsed, werr, reqs, reclaimed>>

\* process_receipt: status = processing, error = None, commit; the commit
\* expires the object, which is reloaded when image_path is read
ProcessBegin(w) ==
  LET r == row[w].receipt_id
      new == Put(Put(receipts[r], loaded[w], "status", "processing"), loaded[w], "error", NULL)
  IN /\ wpc[w] = "begin"
     /\ receipts' = UpdReceipt(r, new)
     /\ loaded' = [loaded EXCEPT ![w] = new]
     /\ Goto(w, "ocr")
     /\ UNCHANGED <<now, receipt_items, tasks, wnow, row, parsed, werr, reqs, reclaimed>>

\* process_receipt's except clause: rollback, status = error, error = str(e), commit, return
ProcessFailed(w, msg) ==
  /\ receipts' = UpdReceipt(row[w].receipt_id,
                            [receipts[row[w].receipt_id] EXCEPT !.status = "error", !.error = msg])
  /\ loaded' = [loaded EXCEPT ![w] = NoReceipt]
  /\ parsed' = [parsed EXCEPT ![w] = NULL]
  /\ Goto(w, "mark_done")
  /\ UNCHANGED <<now, receipt_items, tasks, wnow, row, werr, reqs, reclaimed>>

\* extract_text returns: raw_ocr_text is stored and committed
ExtractText(w) ==
  LET r == row[w].receipt_id
  IN /\ wpc[w] = "ocr"
     /\ receipts' = UpdReceipt(r, Put(receipts[r], loaded[w], "raw_ocr_text", row[w].id))
     /\ Goto(w, "structure")
     /\ UNCHANGED <<now, receipt_items, tasks, wnow, row, loaded, parsed, werr, reqs, reclaimed>>

ExtractTextFails(w) ==
  /\ wpc[w] = "ocr"
  /\ ProcessFailed(w, "ocr failed")

\* structure returns: the receipt is refreshed and its version compared again
Structure(w, c) ==
  LET r == row[w].receipt_id
  IN /\ wpc[w] = "structure"
     /\ IF receipts[r].version # row[w].receipt_version
        THEN /\ Goto(w, "mark_done")
             /\ loaded' = [loaded EXCEPT ![w] = NoReceipt]
             /\ UNCHANGED parsed
        ELSE /\ Goto(w, "commit")
             /\ loaded' = [loaded EXCEPT ![w] = receipts[r]]
             /\ parsed' = [parsed EXCEPT ![w] = c]
     /\ UNCHANGED <<now, receipts, receipt_items, tasks, wnow, row, werr, reqs, reclaimed>>

StructureFails(w) ==
  /\ wpc[w] = "structure"
  /\ ProcessFailed(w, "structure failed")

\* process_receipt: the fields computed from the result, as set on the object
ResultFields(snap, c, tag) ==
  LET det == NormCurrency(c)
      cur == IF snap.currency # NULL /\ Upper(snap.currency) = "AUTO"
             THEN (IF det # NULL THEN det ELSE "USD")
             ELSE snap.currency
  IN [snap EXCEPT !.detected_currency = det, !.currency = cur, !.category = "FOOD",
                  !.merchant = tag, !.status = "done"]

\* the UPDATE the flush emits: the attributes that differ from the loaded ones
Flush(db, snap, new) ==
  [f \in DOMAIN db |-> IF new[f] # snap[f] THEN new[f] ELSE db[f]]

\* process_receipt: write the result, replace the items, status = done, commit
\* the result commit without the DELETE of the receipt's previous items
CommitResult_AppendsItems(w) ==
  LET r == row[w].receipt_id
  IN /\ wpc[w] = "commit"
     /\ receipts' = UpdReceipt(r, Flush(receipts[r], loaded[w],
                                        ResultFields(loaded[w], parsed[w], row[w].id)))
     /\ receipt_items' = [receipt_items EXCEPT ![r] = @ \o ResultItems(row[w].id)]
     /\ loaded' = [loaded EXCEPT ![w] = NoReceipt]
     /\ parsed' = [parsed EXCEPT ![w] = NULL]
     /\ Goto(w, "mark_done")
     /\ UNCHANGED <<now, tasks, wnow, row, werr, reqs, reclaimed>>

CommitResult(w) ==
  LET r == row[w].receipt_id
  IN /\ wpc[w] = "commit"
     /\ receipts' = UpdReceipt(r, Flush(receipts[r], loaded[w],
                                        ResultFields(loaded[w], parsed[w], row[w].id)))
     /\ receipt_items' = [receipt_items EXCEPT ![r] = ResultItems(row[w].id)]
     /\ loaded' = [loaded EXCEPT ![w] = NoReceipt]
     /\ parsed' = [parsed EXCEPT ![w] = NULL]
     /\ Goto(w, "mark_done")
     /\ UNCHANGED <<now, tasks, wnow, row, werr, reqs, reclaimed>>

\* the result commit raises: process_receipt's except clause takes over
CommitResultFails(w) ==
  /\ wpc[w] = "commit"
  /\ ProcessFailed(w, "store error")

DoneRow_ClearsError(tk) ==
  [tk EXCEPT !.status = "done", !.locked_at = NoTime, !.locked_by = NULL, !.last_error = NULL]

\* mark_done's UPDATE
\* a success finalize that leaves the lease columns as they are
DoneRow_KeepsLease(tk) ==
  [tk EXCEPT !.status = "done"]

DoneRow(tk) ==
  [tk EXCEPT !.status = "done", !.locked_at = NoTime, !.locked_by = NULL]

MarkDone(w) ==
  /\ wpc[w] = "mark_done"
  /\ tasks' = UpdTask(row[w].id, DoneRow(tasks[row[w].id]))
  /\ row' = [row EXCEPT ![w] = NoRow]
  /\ Goto(w, "poll")
  /\ UNCHANGED <<now, receipts, receipt_items, wnow, loaded, parsed, werr, reqs, reclaimed>>

\* the store raises inside mark_done: main()'s except clause rolls back and
\* runs mark_failed
MarkDoneFails(w) ==
  /\ wpc[w] = "mark_done"
  /\ werr' = [werr EXCEPT ![w] = "mark_done failed"]
  /\ Goto(w, "mark_failed")
  /\ UNCHANGED <<now, receipts, receipt_items, tasks, wnow, row, loaded, parsed, reqs, reclaimed>>

BackoffSeconds_OffByOne(attempts) == Pow2(attempts) * SecondsPerMinute

\* delay_minutes = 2 ** (attempts - 1), in seconds
BackoffSeconds(attempts) == Pow2(attempts - 1) * SecondsPerMinute

FailedRow_StoredAttempts(tk, attempts, err, n) ==
  IF tk.attempts >= MAX_ATTEMPTS
  THEN [tk EXCEPT !.status = "error", !.last_error = err, !.locked_at = NoTime,
                  !.locked_by = NULL]
  ELSE [tk EXCEPT !.status = "queued", !.run_after = n + BackoffSeconds(tk.attempts),
                  !.last_error = err, !.locked_at = NoTime, !.locked_by = NULL]

\* mark_failed's UPDATE, chosen by the attempts value passed in
FailedRow(tk, attempts, err, n) ==
  IF attempts >= MAX_ATTEMPTS
  THEN [tk EXCEPT !.status = "error", !.last_error = err, !.locked_at = NoTime,
                  !.locked_by = NULL]
  ELSE [tk EXCEPT !.status = "queued", !.run_after = n + BackoffSeconds(attempts),
                  !.last_error = err, !.locked_at = NoTime, !.locked_by = NULL]

MarkFailed(w) ==
  /\ wpc[w] = "mark_failed"
  /\ tasks' = UpdTask(row[w].id, FailedRow(tasks[row[w].id], row[w].attempts, werr[w], now))
  /\ row' = [row EXCEPT ![w] = NoRow]
  /\ werr' = [werr EXCEPT ![w] = NULL]
  /\ Goto(w, "poll")
  /\ UNCHANGED <<now, receipts, receipt_items, wnow, loaded, parsed, reqs, reclaimed>>

\* the store raises inside mark_failed, called from the except clause: the
\* exception leaves main() and the worker process ends, its task untouched
MarkFailedFails(w) ==
  /\ wpc[w] = "mark_failed"
  /\ Goto(w, "stopped")
  /\ UNCHANGED <<now, receipts, receipt_items, tasks, wnow, row, loaded, parsed, werr, reqs, reclaimed>>

\* a column of the returned row other than id does not parse: the task is
\* failed with MAX_ATTEMPTS in place of its attempts, and the loop continues
ParseFails(w) ==
  /\ wpc[w] = "set_processing"
  /\ tasks' = UpdTask(row[w].id, FailedRow(tasks[row[w].id], MAX_ATTEMPTS,
                                           "worker parse error", now))
  /\ row' = [row EXCEPT ![w] = NoRow]
  /\ Goto(w, "poll")
  /\ UNCHANGED <<now, receipts, receipt_items, wnow, loaded, parsed, werr, reqs, reclaimed>>

\* the worker process dies while it holds a claimed task: nothing is
\* written, the task keeps its lease
Crash(w) ==
  /\ Holding(w)
  /\ wpc[w] # "stopped"
  /\ Goto(w, "stopped")
  /\ UNCHANGED <<now, receipts, receipt_items, tasks, wnow, row, loaded, parsed, werr, reqs, reclaimed>>

\* ------------------------------------------------------------ reprocess
\* reprocess_receipt: the attribute values set on the loaded object
ReprocessFields(snap, c) ==
  [snap EXCEPT !.currency = c, !.version = snap.version + 1, !.category = "OTHER",
               !.status = "queued", !.error = NULL, !.merchant = NoTag,
               !.raw_ocr_text = NoTag]

\* the currency query parameter as validated: upper-cased when supplied
ReprocessCurrency(c) == IF c = NULL THEN NULL ELSE Upper(c)

\* the request loads the receipt and mutates the object in its session
\* (a currency outside the accepted set is answered 400 before any change)
ReprocessBegin(q, r, c) ==
  /\ reqs[q].pc = "idle"
  /\ r \in ReceiptIds
  /\ Len(tasks) < MaxTasks
  /\ ReprocessCurrency(c) \in {NULL, "AUTO", "USD", "EUR", "CHF", "RUB"}
  /\ reqs' = [reqs EXCEPT ![q] = [pc |-> "mutated", rid |-> r, loaded |-> receipts[r],
                                  staged |-> ReprocessFields(receipts[r], ReprocessCurrency(c))]]
  /\ UNCHANGED <<now, receipts, receipt_items, tasks, wpc, wnow, row, loaded, parsed, werr, reclaimed>>

ReprocessCommit_CancelsSuperseded(q) ==
  LET r == reqs[q].rid
      kept == [t \in TaskIds |->
                 IF tasks[t].receipt_id = r /\ tasks[t].status = "queued"
                 THEN [tasks[t] EXCEPT !.status = "done"] ELSE tasks[t]]
  IN /\ reqs[q].pc = "mutated"
     /\ receipts' = UpdReceipt(r, Flush(receipts[r], reqs[q].loaded, reqs[q].staged))
     /\ receipt_items' = [receipt_items EXCEPT ![r] = <<>>]
     /\ tasks' = Append(kept, NewTask(r, reqs[q].staged.version, now))
     /\ reqs' = [reqs EXCEPT ![q] = IdleReq]
     /\ UNCHANGED <<now, wpc, wnow, row, loaded, parsed, werr, reclaimed>>

\* delete the items, flush the receipt, insert the task, commit
ReprocessCommit(q) ==
  LET r == reqs[q].rid
  IN /\ reqs[q].pc = "mutated"
     /\ receipts' = UpdReceipt(r, Flush(receipts[r], reqs[q].loaded, reqs[q].staged))
     /\ receipt_items' = [receipt_items EXCEPT ![r] = <<>>]
     /\ tasks' = Append(tasks, NewTask(r, reqs[q].staged.version, now))
     /\ reqs' = [reqs EXCEPT ![q] = IdleReq]
     /\ UNCHANGED <<now, wpc, wnow, row, loaded, parsed, werr, reclaimed>>

ReprocessFails_PartialCommit(q) ==
  /\ reqs[q].pc = "mutated"
  /\ receipts' = UpdReceipt(reqs[q].rid,
                            Flush(receipts[reqs[q].rid], reqs[q].loaded, reqs[q].staged))
  /\ reqs' = [reqs EXCEPT ![q] = [reqs[q] EXCEPT !.pc = "failed"]]
  /\ UNCHANGED <<now, receipt_items, tasks, wpc, wnow, row, loaded, parsed, werr, reclaimed>>

\* a statement of the transaction raises: db.rollback(), HTTP 500
ReprocessFails(q) ==
  /\ reqs[q].pc = "mutated"
  /\ reqs' = [reqs EXCEPT ![q] = [reqs[q] EXCEPT !.pc = "failed"]]
  /\ UNCHANGED <<now, receipts, receipt_items, tasks, wpc, wnow, row, loaded, parsed, werr, reclaimed>>

\* the failed request has returned
ReprocessReturn(q) ==
  /\ reqs[q].pc = "failed"
  /\ reqs' = [reqs EXCEPT ![q] = IdleReq]
  /\ UNCHANGED <<now, receipts, receipt_items, tasks, wpc, wnow, row, loaded, parsed, werr, reclaimed>>

\* the clock up to the first retry of a task that was failed at the end of
\* a lease: one lease and one backoff step
RetryHorizon == LOCK_TIMEOUT_SECONDS + BackoffSeconds(1)

TickRetry(d) ==
  /\ now + d <= RetryHorizon
  /\ now' = now + d
  /\ UNCHANGED <<receipts, receipt_items, tasks, wpc, wnow, row, loaded, parsed, werr, reqs, reclaimed>>

\* the clock in steps of one lease, long enough for a task to be reclaimed
\* after each of MAX_ATTEMPTS claims
AttemptsHorizon == MAX_ATTEMPTS * LOCK_TIMEOUT_SECONDS

TickLease ==
  /\ now + LOCK_TIMEOUT_SECONDS <= AttemptsHorizon
  /\ now' = now + LOCK_TIMEOUT_SECONDS
  /\ UNCHANGED <<receipts, receipt_items, tasks, wpc, wnow, row, loaded, parsed, werr, reqs, reclaimed>>

\* the worker process is started again: main() begins with nothing in hand
Restart(w) ==
  /\ wpc[w] = "stopped"
  /\ Goto(w, "poll")
  /\ wnow' = [wnow EXCEPT ![w] = 0]
  /\ row' = [row EXCEPT ![w] = NoRow]
  /\ loaded' = [loaded EXCEPT ![w] = NoReceipt]
  /\ parsed' = [parsed EXCEPT ![w] = NULL]
  /\ werr' = [werr EXCEPT ![w] = NULL]
  /\ UNCHANGED <<now, receipts, receipt_items, tasks, reqs, reclaimed>>

\* GET /receipts/{id}/task
\* ORDER BY created_at DESC LIMIT 1: created_at is the store's CURRENT_TIMESTAMP
\* (whole seconds), and among rows with equal created_at the store may return any
LatestTasks(r) ==
  {t \in TasksOf(r) : \A u \in TasksOf(r) : tasks[u].created_at <= tasks[t].created_at}

GetReceiptTask(q, r) ==
  /\ reqs[q].pc = "idle"
  /\ r \in ReceiptIds
  /\ \E t \in LatestTasks(r) :
       reqs' = [reqs EXCEPT ![q] = [pc |-> "task_read", rid |-> r, loaded |-> NoReceipt,
                                     staged |-> NoReceipt, task_id |-> t, task |-> tasks[t]]]
  /\ UNCHANGED <<now, receipts, receipt_items, tasks, wpc, wnow, row, loaded, parsed, werr, reclaimed>>

\* the response has been sent
GetReceiptTaskReturn(q) ==
  /\ reqs[q].pc = "task_read"
  /\ reqs' = [reqs EXCEPT ![q] = IdleReq]
  /\ UNCHANGED <<now, receipts, receipt_items, tasks, wpc, wnow, row, loaded, parsed, werr, reclaimed>>

Tick(d) ==
  /\ now + d <= MaxTime
  /\ now' = now + d
  /\ UNCHANGED <<receipts, receipt_items, tasks, wpc, wnow, row, loaded, parsed, werr, reqs, reclaimed>>

\* ======================================================================
\* Properties
\* ======================================================================

\* w's step is the CLAIM_SQL statement returning a row
ClaimStep(w) == wpc[w] = "claim" /\ wpc'[w] = "set_processing"

\* C1: single claim.  Every queued -> processing transition of a task is
\* handed to exactly one claimant, a claim only ever returns a task that was
\* queued, and no two workers ever hold the same task under the same lease
\* (the same attempts number).
C1_SingleClaim ==
  /\ [](\A v, w \in Workers :
          (v # w /\ Holding(v) /\ Holding(w) /\ row[v].id = row[w].id)
             => row[v].attempts # row[w].attempts)
  /\ [][/\ \A t \in TaskIds :
             (tasks[t].status = "queued" /\ tasks'[t].status = "processing")
                => Cardinality({w \in Workers : row'[w] # row[w] /\ row'[w].id = t}) = 1
        /\ \A w \in Workers :
             (row'[w] # row[w] /\ row'[w].id # 0)
                => /\ tasks[row'[w].id].status = "queued"
                   /\ tasks'[row'[w].id].status = "processing"
                   /\ tasks'[row'[w].id].locked_by = w
                   /\ \A v \in Workers \ {w} :
                        ~(row'[v].id = row'[w].id /\ row'[v].attempts = row'[w].attempts)]_vars

\* two workers polled the same pool holding one queued, due task: worker v
\* was handed the task, and the racing claim of worker w finds nothing left
C1_Witness ==
  \E v, w \in Workers :
    /\ v # w
    /\ wpc[v] = "set_processing"
    /\ tasks[row[v].id].locked_by = v
    /\ tasks[row[v].id].attempts = 1
    /\ wpc[w] = "claim"
    /\ wnow[w] = tasks[row[v].id].locked_at
    /\ tasks[row[v].id].run_after <= wnow[w]
    /\ Eligible(tasks, wnow[w]) = {}

\* w holds a task whose captured version is no longer the receipt's version
Stale(w) == Holding(w) /\ receipts[row[w].receipt_id].version # row[w].receipt_version

\* w holds the current lease of its task, and a task of a newer version of
\* the same receipt was created before the poll cycle of w's claim began:
\* the task was already superseded when w claimed it
StaleAtClaim(w) ==
  /\ Holding(w)
  /\ tasks[row[w].id].locked_by = w
  /\ tasks[row[w].id].attempts = row[w].attempts
  /\ \E u \in TaskIds :
       /\ tasks[u].receipt_id = row[w].receipt_id
       /\ tasks[u].receipt_version > row[w].receipt_version
       /\ tasks[u].created_at < tasks[row[w].id].locked_at

\* C2: version supersession.  Once a reprocess has raised the receipt's
\* version while T1's extraction is in flight, no successful step of T1's
\* execution (extract_text returning, structure returning, the result
\* commit, the finalize) changes the receipt row or its line items, and
\* T1's finalize leaves T1 done.
C2_Supersession ==
  [][\A w \in Workers :
       (/\ Stale(w)
        /\ \/ ExtractText(w)
           \/ \E c \in ParsedCurrencies : Structure(w, c)
           \/ CommitResult(w)
           \/ MarkDone(w))
         => /\ receipts' = receipts
            /\ receipt_items' = receipt_items
            /\ MarkDone(w) => tasks'[row[w].id].status = "done"]_vars

\* C3: stale results never land.  Whatever extracted data a receipt stores
\* (recognition text, structured fields, line items) was produced by a task
\* whose receipt_version is the receipt's current version.
C3_NoStaleResult ==
  \A r \in ReceiptIds :
    /\ receipts[r].raw_ocr_text # NoTag
         => tasks[receipts[r].raw_ocr_text].receipt_version = receipts[r].version
    /\ receipts[r].merchant # NoTag
         => tasks[receipts[r].merchant].receipt_version = receipts[r].version
    /\ \A i \in 1..Len(receipt_items[r]) :
         tasks[receipt_items[r][i][1]].receipt_version = receipts[r].version

\* C4: a worker that claimed an already superseded task makes no extraction
\* call and changes neither the receipt row (status included) nor its items;
\* its next steps lead straight to the success finalize.
C4_StaleClaimIsNoop ==
  [][\A w \in Workers :
       (StaleAtClaim(w) /\ (SetReceiptProcessing(w) \/ ProcessLoad(w) \/ MarkDone(w)))
         => /\ receipts' = receipts
            /\ receipt_items' = receipt_items
            /\ wpc'[w] \in {"load", "mark_done", "poll"}
            /\ MarkDone(w) => /\ tasks'[row[w].id].status = "done"
                              /\ tasks'[row[w].id].last_error = tasks[row[w].id].last_error
                              /\ tasks'[row[w].id].run_after = tasks[row[w].id].run_after]_vars

\* C5: when extract_text or structure raises during the execution of a
\* current-version task, the worker's finalize is the failure finalize
\* (mark_failed: requeue with backoff, or terminal error), never mark_done.
C5_ExtractionFailureFailsTask ==
  [][\A w \in Workers :
       (~Stale(w) /\ (ExtractTextFails(w) \/ StructureFails(w)))
         => wpc'[w] = "mark_failed"]_vars

\* C6: terminal tasks are immutable.  No step changes a task row whose
\* status is done or error.
C6_TerminalImmutable ==
  [][\A t \in TaskIds :
       tasks[t].status \in {"done", "error"} => tasks'[t] = tasks[t]]_vars

\* C7: backoff sequence with MAX_ATTEMPTS = 3.  For a task whose attempts
\* all ended in a failure finalize (no lease of it was ever reclaimed), the
\* failure finalize after attempt 1 requeues it with run_after one minute
\* after the finalize, after attempt 2 two minutes after it, after attempt
\* 3 makes it terminal error; it is never claimed a fourth time.
C7_BackoffSequence ==
  [][\A w \in Workers :
       /\ (MarkFailed(w) /\ row[w].id \notin reclaimed)
            => LET t == row[w].id
                   a == row[w].attempts
               IN /\ a \in {1, 2, 3}
                  /\ a = 1 => /\ tasks'[t].status = "queued"
                              /\ tasks'[t].run_after = now + 60
                  /\ a = 2 => /\ tasks'[t].status = "queued"
                              /\ tasks'[t].run_after = now + 120
                  /\ a = 3 => tasks'[t].status = "error"
                  /\ tasks'[t].last_error # NULL
       /\ (ClaimStep(w) /\ row'[w].id \notin reclaimed)
            => /\ row'[w].attempts <= 3
               /\ tasks[row'[w].id].status # "error"]_vars

\* a task went through three failed attempts and is terminal error
C7_Witness ==
  \E t \in TaskIds :
    /\ t \notin reclaimed
    /\ tasks[t].status = "error"
    /\ tasks[t].attempts = 3
    /\ tasks[t].last_error # NULL

\* C8: lease reclaim boundary with LOCK_TIMEOUT_SECONDS = 180.  A poll cycle
\* whose now is at most 179 s after a processing task's locked_at leaves
\* that task untouched, and no claim returns a task that is processing; a
\* poll cycle whose now is at least 181 s after locked_at requeues it with
\* its lease cleared and run_after due, so that the claim of that cycle may
\* take it.
C8_LeaseBoundary ==
  [][\A w \in Workers :
       /\ (wpc[w] = "poll" /\ wpc'[w] = "claim")
            => \A t \in TaskIds :
                 tasks[t].status = "processing"
                   => /\ wnow'[w] - tasks[t].locked_at <= 179 => tasks'[t] = tasks[t]
                      /\ wnow'[w] - tasks[t].locked_at >= 181
                           => /\ tasks'[t].status = "queued"
                              /\ tasks'[t].locked_by = NULL
                              /\ tasks'[t].run_after <= wnow'[w]
       /\ ClaimStep(w) => tasks[row'[w].id].status = "queued"]_vars

\* a task claimed at t = 0 and never finalized by its first holder has been
\* requeued and claimed by the other worker in the poll cycle at t = 181
C8_Witness ==
  \E v, w \in Workers :
    /\ v # w
    /\ Holding(v) /\ row[w].id = row[v].id
    /\ row[v].attempts = 1 /\ row[w].attempts = 2
    /\ row[w].id \in reclaimed
    /\ tasks[row[w].id].created_at = 0
    /\ tasks[row[w].id].status = "processing"
    /\ tasks[row[w].id].locked_by = w
    /\ tasks[row[w].id].locked_at = 181

\* C9: FIFO.  A claim returns a task that was queued and due, and no other
\* queued and due task has an earlier created_at.
C9_Fifo ==
  [][\A w \in Workers :
       ClaimStep(w)
         => LET t == row'[w].id
            IN /\ tasks[t].status = "queued" /\ tasks[t].run_after <= wnow[w]
               /\ \A u \in TaskIds :
                    (tasks[u].status = "queued" /\ tasks[u].run_after <= wnow[w])
                      => tasks[t].created_at <= tasks[u].created_at]_vars

\* a worker has just claimed T1 while T2, created later but before the poll
\* cycle began, is still queued and was due
C9_Witness ==
  \E w \in Workers : \E u \in TaskIds :
    /\ wpc[w] = "set_processing"
    /\ tasks[row[w].id].locked_by = w
    /\ tasks[u].status = "queued" /\ tasks[u].attempts = 0
    /\ tasks[row[w].id].created_at < tasks[u].created_at
    /\ tasks[u].created_at < tasks[row[w].id].locked_at

\* C10: reprocess atomicity.  A reprocess that fails after it mutated the
\* receipt in its transaction leaves the receipts, their items and the task
\* table exactly as they were, and no task ever carries a receipt_version
\* above its receipt's committed version.
C10_ReprocessAtomic ==
  /\ [](\A t \in TaskIds :
          /\ tasks[t].receipt_id \in ReceiptIds
          /\ tasks[t].receipt_version >= 1
          /\ tasks[t].receipt_version <= receipts[tasks[t].receipt_id].version)
  /\ [][\A q \in Requests :
          (reqs[q].pc = "mutated" /\ reqs'[q].pc = "failed")
            => /\ receipts' = receipts
               /\ receipt_items' = receipt_items
               /\ tasks' = tasks]_vars

\* a reprocess failed after staging the version bump: the bump is not in
\* the store and no task carries it
C10_Witness ==
  \E q \in Requests :
    /\ reqs[q].pc = "failed"
    /\ reqs[q].staged.version = receipts[reqs[q].rid].version + 1
    /\ receipts[reqs[q].rid].status # "queued"
    /\ \A t \in TaskIds :
         tasks[t].receipt_id = reqs[q].rid
           => tasks[t].receipt_version < reqs[q].staged.version

\* w is inside one of the external extraction calls of process_receipt
Executing(w) == wpc[w] \in {"ocr", "structure"}

\* C11: while a worker is inside the extraction of a task it claimed, the
\* task is processing under that worker's lease, and no other worker is
\* executing the same task.
C11_LeaseHeldWhileExecuting ==
  \A w \in Workers :
    Executing(w)
      => /\ tasks[row[w].id].status = "processing"
         /\ tasks[row[w].id].locked_by = w
         /\ \A v \in Workers \ {w} : ~(Executing(v) /\ row[v].id = row[w].id)

\* the currency argument of request q as validated, NULL when none was supplied
CurrencyArg(q) == reqs[q].staged.currency

\* C12: a reprocess that supplies no currency commits with the receipt's
\* currency left as it was, and a reprocess changes the currency only to
\* the value it explicitly supplied.
C12_CurrencyPreserved ==
  [][\A q \in AllRequests :
       ReprocessCommit(q)
         => LET r == reqs[q].rid
            IN /\ CurrencyArg(q) = NULL => receipts'[r].currency = receipts[r].currency
               /\ receipts'[r].currency # receipts[r].currency
                    => (CurrencyArg(q) # NULL /\ receipts'[r].currency = CurrencyArg(q))]_vars

\* C13: right after a successful reprocess the receipt's extracted fields
\* (merchant, recognition text, category, detected currency, error) are
\* null, it has no line items, and its status is queued.
C13_ReprocessResetsAll ==
  [][\A q \in AllRequests :
       ReprocessCommit(q)
         => LET r == reqs[q].rid
            IN /\ receipts'[r].merchant = NoTag
               /\ receipts'[r].raw_ocr_text = NoTag
               /\ receipts'[r].category = NULL
               /\ receipts'[r].detected_currency = NULL
               /\ receipts'[r].error = NULL
               /\ receipts'[r].status = "queued"
               /\ receipt_items'[r] = <<>>]_vars

\* C14: a receipt's version is 1 plus the number of successful reprocess
\* requests, no two of which produced the same version, and it never
\* decreases.
C14_VersionCounts ==
  /\ [](\A r \in ReceiptIds :
          /\ receipts[r].version = 1 + (Cardinality(TasksOf(r)) - 1)
          /\ \A t, u \in TasksOf(r) :
               t # u => tasks[t].receipt_version # tasks[u].receipt_version)
  /\ [][\A r \in ReceiptIds : receipts'[r].version >= receipts[r].version]_vars

\* C15: a successful reprocess appends exactly one task: queued, attempts 0,
\* no lease, no error, run_after = now, for the reprocessed receipt and
\* carrying the version the receipt has after the commit.
C15_FreshTask ==
  [][\A q \in AllRequests :
       ReprocessCommit(q)
         => LET new == tasks'[Len(tasks')]
            IN /\ Len(tasks') = Len(tasks) + 1
               /\ new.receipt_id = reqs[q].rid
               /\ new.receipt_version = receipts'[reqs[q].rid].version
               /\ new.status = "queued"
               /\ new.attempts = 0
               /\ new.locked_at = NoTime /\ new.locked_by = NULL
               /\ new.last_error = NULL
               /\ new.run_after = now]_vars

\* the task of version 1 failed twice, and the reprocess that followed
\* queued a fresh task of version 2 with no attempt and no error on it
C15_Witness ==
  \E t, u \in TaskIds :
    /\ tasks[t].receipt_id = tasks[u].receipt_id
    /\ tasks[t].receipt_version = 1
    /\ tasks[t].attempts = 2 /\ tasks[t].last_error # NULL
    /\ tasks[u].receipt_version = 2
    /\ receipts[tasks[u].receipt_id].version = 2
    /\ tasks[u].created_at > tasks[t].created_at
    /\ tasks[u].status = "queued" /\ tasks[u].attempts = 0
    /\ tasks[u].run_after = tasks[u].created_at
    /\ tasks[u].last_error = NULL /\ tasks[u].locked_by = NULL

\* C16: no step of a reprocess request changes or removes an existing task
\* row, and no step of any operation changes the receipt_id, the
\* receipt_version or the created_at of an existing task.
C16_TasksKept ==
  [][/\ Len(tasks') >= Len(tasks)
     /\ \A t \in TaskIds :
          /\ tasks'[t].receipt_id = tasks[t].receipt_id
          /\ tasks'[t].receipt_version = tasks[t].receipt_version
          /\ tasks'[t].created_at = tasks[t].created_at
     /\ \A q \in AllRequests :
          reqs'[q] # reqs[q] => \A t \in TaskIds : tasks'[t] = tasks[t]]_vars

\* a reprocess superseded the queued task T1; T1 kept its place in the
\* queue and was claimed, for its first attempt, ahead of the new task
C16_Witness ==
  \E t, u \in TaskIds :
    /\ tasks[t].receipt_id = tasks[u].receipt_id
    /\ tasks[t].receipt_version = 1 /\ tasks[u].receipt_version = 2
    /\ tasks[t].created_at = 0 /\ tasks[u].created_at > 0
    /\ tasks[u].status = "queued" /\ tasks[u].attempts = 0
    /\ tasks[t].status = "processing" /\ tasks[t].attempts = 1
    /\ tasks[t].locked_at > tasks[u].created_at

\* C17: a claim by worker w at its time now that returns a row changes
\* exactly that task (status processing, locked_at = now, locked_by = w,
\* attempts one more, all else kept) and returns the id, receipt_id,
\* receipt_version and attempts the row has after the update; a claim with
\* no queued task due returns nothing and changes no row, and a claim
\* returns nothing only then.
C17_ClaimEffect ==
  [][\A w \in Workers :
       wpc[w] = "claim" /\ wpc'[w] # "claim"
         => IF \E t \in TaskIds : tasks[t].status = "queued" /\ tasks[t].run_after <= wnow[w]
            THEN LET t == row'[w].id
                 IN /\ t \in TaskIds
                    /\ tasks'[t] = [tasks[t] EXCEPT !.status = "processing",
                                                     !.locked_at = wnow[w],
                                                     !.locked_by = w,
                                                     !.attempts = tasks[t].attempts + 1]
                    /\ Len(tasks') = Len(tasks)
                    /\ \A u \in TaskIds \ {t} : tasks'[u] = tasks[u]
                    /\ row'[w] = [id |-> t,
                                  receipt_id |-> tasks'[t].receipt_id,
                                  receipt_version |-> tasks'[t].receipt_version,
                                  attempts |-> tasks'[t].attempts]
            ELSE /\ tasks' = tasks
                 /\ row'[w] = NoRow
                 /\ wpc'[w] = "poll"]_vars

\* a worker has just claimed, at a poll cycle after t = 0, a task for its
\* second attempt and holds the row's new values
C17_Witness ==
  \E w \in Workers :
    /\ wpc[w] = "set_processing"
    /\ row[w].attempts = 2
    /\ tasks[row[w].id].attempts = 2
    /\ tasks[row[w].id].status = "processing"
    /\ tasks[row[w].id].locked_by = w
    /\ tasks[row[w].id].locked_at > 0
    /\ row[w].receipt_version = tasks[row[w].id].receipt_version

\* C18: a claim made with time now returns only a task that is queued and
\* whose run_after is not later than now, the time of a claim is never ahead
\* of the clock, and so a task requeued with a backoff is claimed by no
\* worker before its run_after has passed.
C18_Eligibility ==
  [][\A w \in Workers :
       ClaimStep(w)
         => /\ tasks[row'[w].id].status = "queued"
            /\ tasks[row'[w].id].run_after <= wnow[w]
            /\ wnow[w] <= now
            /\ tasks[row'[w].id].run_after <= now]_vars

\* a task that failed its first attempt was requeued with a backoff and
\* claimed for the second attempt at a poll cycle not before its run_after
C18_Witness ==
  \E t \in TaskIds :
    /\ t \notin reclaimed
    /\ tasks[t].last_error # NULL
    /\ tasks[t].attempts = 2
    /\ tasks[t].status = "processing"
    /\ tasks[t].run_after = tasks[t].created_at + BackoffSeconds(1)
    /\ tasks[t].locked_at >= tasks[t].run_after

\* w's step is the REQUEUE_STALE_SQL statement and its commit
ReclaimStep(w) == wpc[w] = "poll" /\ wpc'[w] = "claim"

\* C19: the stale reclaim run with time now turns every task that is
\* processing with locked_at <= now - LOCK_TIMEOUT_SECONDS into queued with
\* locked_at and locked_by null and run_after = now, keeping its attempts,
\* last_error and every other column, and changes no other task.
C19_ReclaimEffect ==
  [][\A w \in Workers :
       ReclaimStep(w)
         => /\ Len(tasks') = Len(tasks)
            /\ wnow'[w] = now
            /\ \A t \in TaskIds :
                 IF /\ tasks[t].status = "processing"
                    /\ tasks[t].locked_at <= now - LOCK_TIMEOUT_SECONDS
                 THEN tasks'[t] = [tasks[t] EXCEPT !.status = "queued",
                                                   !.locked_at = NoTime,
                                                   !.locked_by = NULL,
                                                   !.run_after = now]
                 ELSE tasks'[t] = tasks[t]]_vars

\* a worker has just reclaimed the expired lease of a task another worker
\* still holds: the task is queued with no lease, due at the reclaim's time,
\* and keeps its one attempt
C19_Witness ==
  \E t \in TaskIds : \E v, w \in Workers :
    /\ t \in reclaimed
    /\ v # w /\ row[v].id = t
    /\ wpc[w] = "claim" /\ wnow[w] = tasks[t].run_after
    /\ tasks[t].run_after >= tasks[t].created_at + LOCK_TIMEOUT_SECONDS
    /\ tasks[t].status = "queued"
    /\ tasks[t].locked_at = NoTime /\ tasks[t].locked_by = NULL
    /\ tasks[t].attempts = 1

\* C20: a stale reclaim run when no processing task has an expired lease
\* changes no task and no receipt; and after a reclaim run with time now a
\* second run with the same now changes nothing more.
C20_ReclaimIdempotent ==
  [][\A w \in Workers :
       ReclaimStep(w)
         => /\ (\A t \in TaskIds :
                  ~(/\ tasks[t].status = "processing"
                    /\ tasks[t].locked_at <= now - LOCK_TIMEOUT_SECONDS))
                 => (tasks' = tasks /\ reclaimed' = reclaimed)
            /\ receipts' = receipts /\ receipt_items' = receipt_items
            /\ \A t \in TaskIds :
                 ~(/\ tasks'[t].status = "processing"
                   /\ tasks'[t].locked_at <= now - LOCK_TIMEOUT_SECONDS)
            /\ RequeueStaleRows(tasks', now, now - LOCK_TIMEOUT_SECONDS) = tasks']_vars

\* the reclaim ran twice with the same now: worker v's run requeued the
\* expired lease (run_after = now) and v claimed the task again; worker w's
\* run, at the same now, came after it and found nothing stale
C20_Witness ==
  \E t \in TaskIds : \E v, w \in Workers :
    /\ t \in reclaimed
    /\ v # w
    /\ row[v].id = t /\ row[v].attempts = 2
    /\ tasks[t].run_after = now
    /\ wpc[w] = "claim" /\ wnow[w] = now

\* C21: the failure finalize of worker w, whose claim returned attempts a,
\* makes the task error with last_error recorded when a >= MAX_ATTEMPTS, and
\* otherwise queued with the lease cleared, last_error recorded and
\* run_after = now + 2^(a-1) minutes; a is the value the claim returned,
\* whatever the row's attempts column holds by then; no other task changes.
C21_FailureFinalize ==
  [][\A w \in Workers :
       MarkFailed(w)
         => LET t == row[w].id
                a == row[w].attempts
            IN /\ a >= 1
               /\ tasks'[t].last_error = werr[w] /\ werr[w] # NULL
               /\ tasks'[t].locked_at = NoTime /\ tasks'[t].locked_by = NULL
               /\ tasks'[t].attempts = tasks[t].attempts
               /\ IF a >= 3
                  THEN /\ tasks'[t].status = "error"
                       /\ tasks'[t].run_after = tasks[t].run_after
                  ELSE /\ tasks'[t].status = "queued"
                       /\ tasks'[t].run_after = now + (2 ^ (a - 1)) * 60
               /\ \A u \in TaskIds \ {t} : tasks'[u] = tasks[u]]_vars

\* the holder of the first lease failed after the task had been reclaimed
\* and claimed a second time: the row counts two attempts and was requeued
\* with the one-minute delay of attempt 1
C21_Witness ==
  \E t \in TaskIds :
    /\ t \in reclaimed
    /\ tasks[t].attempts = 2
    /\ tasks[t].status = "queued"
    /\ tasks[t].last_error # NULL
    /\ tasks[t].locked_by = NULL
    /\ tasks[t].run_after = now + 60

\* C22: the success finalize sets the task's status to done and clears
\* locked_at and locked_by, leaving every other column of it and every
\* other task unchanged; and a task becomes done by no other step.
C22_SuccessFinalize ==
  [][/\ \A w \in Workers :
          MarkDone(w)
            => LET t == row[w].id
               IN /\ tasks'[t] = [tasks[t] EXCEPT !.status = "done",
                                                  !.locked_at = NoTime,
                                                  !.locked_by = NULL]
                  /\ \A u \in TaskIds \ {t} : tasks'[u] = tasks[u]
     /\ \A t \in TaskIds :
          (tasks[t].status # "done" /\ tasks'[t].status = "done")
            => \E w \in Workers : MarkDone(w) /\ row[w].id = t]_vars

\* a task whose first attempt failed was finalized done after its second:
\* it keeps its two attempts, its last_error and the run_after of the retry
C22_Witness ==
  \E t \in TaskIds :
    /\ tasks[t].status = "done"
    /\ tasks[t].attempts = 2
    /\ tasks[t].last_error # NULL
    /\ tasks[t].run_after = tasks[t].created_at + 60
    /\ tasks[t].locked_at = NoTime /\ tasks[t].locked_by = NULL
    /\ receipts[tasks[t].receipt_id].status = "done"

\* C23: the worker loop never ends, and an exception raised by
\* set_receipt_processing, by extract_text or structure, or by mark_done
\* leads the worker to the failure finalize of the task it claimed.
C23_LoopSurvives ==
  /\ [](\A w \in Workers : wpc[w] # "stopped")
  /\ [][\A w \in Workers :
          (\/ SetReceiptProcessingFails(w)
           \/ ExtractTextFails(w)
           \/ StructureFails(w)
           \/ MarkDoneFails(w))
            => wpc'[w] = "mark_failed"]_vars

\* the store write of w's finalize has failed: mark_done raised and w is in
\* the except clause, or mark_failed raised as well
FinalizeFailed(w) ==
  \/ wpc[w] = "mark_failed" /\ werr[w] = "mark_done failed"
  \/ wpc[w] = "stopped"

\* C24: a finalize whose store write fails changes no task, and as long as
\* the task is processing under that worker's lease the worker itself runs
\* no other finalize on it: the task is left to the stale reclaim.
C24_FailedFinalizeKeepsLease ==
  [][\A w \in Workers :
       /\ (MarkDoneFails(w) \/ MarkFailedFails(w)) => tasks' = tasks
       /\ (/\ FinalizeFailed(w)
           /\ tasks[row[w].id].status = "processing"
           /\ tasks[row[w].id].locked_by = w)
            => (~MarkFailed(w) /\ ~MarkDone(w))]_vars

\* C25: when the row a claim returned does not parse, the task becomes
\* error at once with last_error recorded, whatever its attempts, and the
\* worker goes on polling; the task then stays error and its attempts never
\* grow again.
C25_ParseFailureTerminal ==
  [][/\ \A w \in Workers :
          ParseFails(w)
            => /\ tasks'[row[w].id].status = "error"
               /\ tasks'[row[w].id].last_error = "worker parse error"
               /\ wpc'[w] = "poll"
     /\ \A t \in TaskIds :
          (tasks[t].status = "error" /\ tasks[t].last_error = "worker parse error")
            => /\ tasks'[t].status = "error"
               /\ tasks'[t].attempts = tasks[t].attempts]_vars

\* C26: crash recovery.  When worker-1 has died holding a task whose lease
\* expires within the clock's horizon, and worker-2 keeps polling, the task
\* is eventually claimed again; and any poll cycle that runs at or after
\* locked_at + LOCK_TIMEOUT_SECONDS leaves the task queued and due.
C26_CrashRecovery ==
  /\ \A t \in 1..MaxTasks :
       (/\ t \in TaskIds
        /\ wpc["worker-1"] = "stopped" /\ row["worker-1"].id = t
        /\ tasks[t].status = "processing" /\ tasks[t].locked_by = "worker-1"
        /\ tasks[t].locked_at + LOCK_TIMEOUT_SECONDS <= MaxTime)
         ~> (/\ t \in TaskIds
             /\ tasks[t].locked_by = "worker-2"
             /\ tasks[t].attempts > row["worker-1"].attempts)
  /\ [][\A w \in Workers : \A t \in TaskIds :
          (/\ ReclaimStep(w)
           /\ tasks[t].status = "processing"
           /\ now >= tasks[t].locked_at + LOCK_TIMEOUT_SECONDS)
            => /\ tasks'[t].status = "queued"
               /\ tasks'[t].run_after <= wnow'[w]]_vars

\* worker-1 died holding the task on its first attempt; worker-2 reclaimed
\* it and holds it on its second
C26_Witness ==
  \E t \in TaskIds :
    /\ wpc["worker-1"] = "stopped"
    /\ row["worker-1"].id = t /\ row["worker-1"].attempts = 1
    /\ t \in reclaimed
    /\ row["worker-2"].id = t /\ row["worker-2"].attempts = 2
    /\ tasks[t].status = "processing" /\ tasks[t].locked_by = "worker-2"
    /\ tasks[t].locked_at >= LOCK_TIMEOUT_SECONDS

\* every task of receipt r is terminal, no worker still holds one of them
\* and no reprocess of r is in flight
Settled(r) ==
  /\ \A t \in TasksOf(r) : tasks[t].status \in {"done", "error"}
  /\ \A w \in Workers : ~(Holding(w) /\ row[w].receipt_id = r)
  /\ \A q \in AllRequests : ~(reqs[q].pc = "mutated" /\ reqs[q].rid = r)

\* C27: once all the tasks of a receipt are terminal, the receipt's status
\* is done or error: it is not left queued or processing.
C27_ReceiptSettles ==
  \A r \in ReceiptIds : Settled(r) => receipts[r].status \in {"done", "error"}

\* C28: a step that adds a receipt adds exactly one receipt, with version 1
\* and status queued, together with exactly one task for it: queued,
\* attempts 0, no lease, receipt_version 1, run_after = now; no step adds a
\* receipt without its task; and a failed upload leaves no receipt and no
\* task behind.
C28_UploadAtomic ==
  [][/\ Len(receipts') # Len(receipts)
          => /\ Len(receipts') = Len(receipts) + 1
             /\ Len(tasks') = Len(tasks) + 1
             /\ receipts'[Len(receipts')].version = 1
             /\ receipts'[Len(receipts')].status = "queued"
             /\ receipt_items'[Len(receipts')] = <<>>
             /\ LET new == tasks'[Len(tasks')]
                IN /\ new.receipt_id = Len(receipts')
                   /\ new.receipt_version = 1
                   /\ new.status = "queued" /\ new.attempts = 0
                   /\ new.locked_at = NoTime /\ new.locked_by = NULL
                   /\ new.run_after = now
             /\ \A r \in ReceiptIds : receipts'[r] = receipts[r]
             /\ \A t \in TaskIds : tasks'[t] = tasks[t]
     /\ \A q \in AllRequests :
          (reqs[q].pc = "idle" /\ reqs'[q].pc = "upload_failed")
            => (receipts' = receipts /\ receipt_items' = receipt_items /\ tasks' = tasks)]_vars

\* an upload at a time after 0 committed a receipt with its task; another
\* upload failed and left nothing
C28_Witness ==
  \E q \in AllRequests :
    /\ reqs[q].pc = "upload_failed"
    /\ Len(receipts) = 1 /\ Len(tasks) = 1
    /\ receipts[1].version = 1
    /\ tasks[1].receipt_id = 1 /\ tasks[1].receipt_version = 1
    /\ tasks[1].created_at > 0 /\ tasks[1].run_after = tasks[1].created_at

\* C29: for every receipt and every version from 1 to its current version
\* there is exactly one task of that receipt with that receipt_version, and
\* no task carries a version above its receipt's current version.
C29_OneTaskPerVersion ==
  \A r \in ReceiptIds :
    /\ \A v \in 1..receipts[r].version :
         Cardinality({t \in TasksOf(r) : tasks[t].receipt_version = v}) = 1
    /\ \A t \in TasksOf(r) : tasks[t].receipt_version <= receipts[r].version

\* C30: in every committed state the line items of a receipt are either
\* empty or exactly the complete item list of one single extraction result
\* of one of its tasks; never a mixture of two results nor a partial list.
C30_ItemsReplacedAsUnit ==
  \A r \in ReceiptIds :
    \/ receipt_items[r] = <<>>
    \/ \E t \in TasksOf(r) : receipt_items[r] = ResultItems(t)

\* two workers held the two tasks of receipt 1 at once, the commit of the
\* later task's result failed midway, and the items are the earlier result's
C30_Witness ==
  /\ Len(receipts) >= 1
  /\ Len(tasks) >= 2
  /\ tasks[1].receipt_id = 1
  /\ tasks[2].receipt_id = 1
  /\ receipts[1].error = "store error"
  /\ receipt_items[1] = ResultItems(1)
  /\ \E w \in Workers : \E v \in Workers \ {w} :
       /\ row[w].id = 1
       /\ row[v].id = 2
       /\ wpc[w] = "mark_done"
       /\ wpc[v] = "mark_done"

\* C31: the task status read returns the task with the latest creation time
\* among the receipt's tasks, which after a reprocess is the task of the
\* newest version; it reports the stored fields and modifies no receipt or task.
C31_TaskReadLatest ==
  [][\A q \in AllRequests :
       (reqs[q].pc = "idle" /\ reqs'[q].pc = "task_read")
         => LET r == reqs'[q].rid
                t == reqs'[q].task_id
            IN /\ t \in TasksOf(r)
               /\ \A u \in TasksOf(r) :
                    /\ tasks[u].created_at <= tasks[t].created_at
                    /\ tasks[u].receipt_version <= tasks[t].receipt_version
               /\ reqs'[q].task = tasks[t]
               /\ receipts' = receipts
               /\ receipt_items' = receipt_items
               /\ tasks' = tasks]_vars

\* C32: retries stop.  Every enqueued task reaches done or error, and from
\* then on it is never claimed again: once a task is done or error it is
\* never again a processing task.
C32_RetriesStop ==
  \A t \in 1..MaxTasks :
    []((t \in TaskIds /\ tasks[t].status \in {"done", "error"})
         => [](t \in TaskIds /\ tasks[t].status # "processing"))

\* C33: when a task is executed again after its results were committed
\* (its first worker stopped between the result commit and the finalize),
\* the second result commit leaves the receipt's fields and items equal to
\* those of a single execution with that result on the receipt as uploaded.
C33_ReexecutionIdempotent ==
  [][\A w \in Workers :
       LET r == row[w].receipt_id
           t == row[w].id
       IN (/\ CommitResult(w)
           /\ receipts[r].version = 1
           /\ receipts[r].merchant = t
           /\ \E v \in Workers \ {w} : wpc[v] = "stopped" /\ row[v].id = t)
            => /\ receipt_items'[r] = ResultItems(t)
               /\ \E u \in UploadCurrencies :
                    receipts'[r] = ResultFields([receipts[r] EXCEPT !.currency = u],
                                                parsed[w], t)]_vars

\* C34: in every poll iteration the stale reclaim runs and is committed
\* before the claim, and the claim uses the same now: every task the reclaim
\* requeued is eligible for the claim of the same iteration, the claim is
\* only ever preceded by the reclaim, and the worker sleeps and starts the
\* next iteration only when the claim found no eligible task.
C34_PollIteration ==
  [][\A w \in Workers :
       /\ (wpc'[w] = "claim" /\ wpc[w] # "claim")
            => /\ wpc[w] = "poll"
               /\ wnow'[w] = now
               /\ tasks' = RequeueStaleRows(tasks, now, now - LOCK_TIMEOUT_SECONDS)
               /\ \A t \in TaskIds :
                    IsStale(tasks[t], now - LOCK_TIMEOUT_SECONDS)
                      => t \in Eligible(tasks', wnow'[w])
       /\ (wpc'[w] = "set_processing" /\ wpc[w] # "set_processing")
            => /\ wpc[w] = "claim"
               /\ row'[w].id \in Eligible(tasks, wnow[w])
               /\ tasks'[row'[w].id].locked_at = wnow[w]
       /\ (wpc[w] = "claim" /\ wpc'[w] = "poll")
            => /\ Eligible(tasks, wnow[w]) = {}
               /\ tasks' = tasks
               /\ row'[w] = NoRow]_vars

\* a task whose lease had expired was requeued and claimed with one and the
\* same now, for its second attempt
C34_Witness ==
  \E w \in Workers : \E t \in TaskIds :
    /\ wpc[w] = "set_processing"
    /\ row[w].id = t
    /\ t \in reclaimed
    /\ tasks[t].locked_by = w
    /\ tasks[t].attempts = 2
    /\ tasks[t].locked_at = tasks[t].run_after
    /\ tasks[t].locked_at >= tasks[t].created_at + LOCK_TIMEOUT_SECONDS

\* C35: lease-field consistency.  A task is processing if and only if both
\* locked_at and locked_by are non-null; a queued, done or error task has
\* both lease fields null.
C35_LeaseFields ==
  \A t \in TaskIds :
    /\ tasks[t].status \in {"queued", "processing", "done", "error"}
    /\ tasks[t].status = "processing"
         <=> (tasks[t].locked_at # NoTime /\ tasks[t].locked_by # NULL)
    /\ tasks[t].status # "processing"
         => (tasks[t].locked_at = NoTime /\ tasks[t].locked_by = NULL)

\* a task that was claimed, reclaimed from its holder, claimed again and
\* then set back to queued by a failure finalize: every writer of the lease
\* fields has acted on it
C35_Witness ==
  \E t \in TaskIds :
    /\ t \in reclaimed
    /\ tasks[t].status = "queued"
    /\ tasks[t].attempts = 2
    /\ tasks[t].last_error # NULL
    /\ tasks[t].locked_at = NoTime
    /\ tasks[t].locked_by = NULL

\* C36: bounded attempts.  Every task has attempts <= MAX_ATTEMPTS, also
\* when its claims follow lease reclaims: a task whose worker stops before
\* finalizing on every attempt is claimed at most MAX_ATTEMPTS times.
C36_AttemptsBounded ==
  \A t \in TaskIds : tasks[t].attempts <= MAX_ATTEMPTS

\* w holds the lease of the task in its hand: the task is processing,
\* locked by w, under the claim that returned w's row
HoldsLease(w) ==
  /\ Holding(w)
  /\ tasks[row[w].id].status = "processing"
  /\ tasks[row[w].id].locked_by = w
  /\ tasks[row[w].id].attempts = row[w].attempts

\* C37: a finalize (mark_done or mark_failed) issued by a worker changes the
\* task only if the worker still holds the task's lease; a worker whose
\* lease was reclaimed cannot clear another worker's lease, requeue the task
\* or overwrite its outcome.
C37_FinalizeNeedsLease ==
  [][\A w \in Workers :
       ((MarkDone(w) \/ MarkFailed(w)) /\ ~HoldsLease(w)) => tasks' = tasks]_vars

\* C38: when an extraction call of a task raises after a reprocess has
\* raised the receipt's version, the failing task changes neither the
\* receipt's status nor its error.
C38_StaleFailureSilent ==
  [][\A w \in Workers :
       (Stale(w) /\ (ExtractTextFails(w) \/ StructureFails(w)))
         => /\ receipts'[row[w].receipt_id].status = receipts[row[w].receipt_id].status
            /\ receipts'[row[w].receipt_id].error = receipts[row[w].receipt_id].error]_vars

\* C39: receipt status/error consistency.  A receipt with status error has
\* an error message, and a receipt with status done or queued has none.
C39_StatusErrorConsistent ==
  \A r \in ReceiptIds :
    /\ receipts[r].status = "error" => receipts[r].error # NULL
    /\ receipts[r].status \in {"done", "queued"} => receipts[r].error = NULL

\* the four reference currencies
KnownCurrencies == {"USD", "EUR", "CHF", "RUB"}

\* C40 as stated: on the result commit of a current-version task,
\* detected_currency is the extractor's currency if, compared without regard
\* to case, it is one of USD, EUR, CHF, RUB, and null otherwise; a requested
\* currency AUTO is replaced by detected_currency, or by USD when that is
\* null; any other requested currency is left unchanged.
C40_CurrencyResolution_AsStated ==
  [][\A w \in Workers :
       (CommitResult(w) /\ ~Stale(w))
         => LET r == row[w].receipt_id
                c == parsed[w]
                det == IF c # NULL /\ Upper(c) \in KnownCurrencies THEN Upper(c) ELSE NULL
            IN /\ receipts'[r].detected_currency = det
               /\ receipts'[r].currency =
                    IF loaded[w].currency = "AUTO"
                    THEN (IF det # NULL THEN det ELSE "USD")
                    ELSE receipts[r].currency]_vars

\* C40, amended: the extractor's currency is compared after its surrounding
\* whitespace is removed and it is upper-cased, and detected_currency is
\* that normalised code (null for null, the empty string and anything that
\* is not one of the four codes); the requested currency is resolved as stated.
C40_CurrencyResolution ==
  [][\A w \in Workers :
       (CommitResult(w) /\ ~Stale(w))
         => LET r == row[w].receipt_id
                c == parsed[w]
                code == IF c = NULL THEN NULL ELSE Upper(Strip(c))
                det == IF code \in KnownCurrencies THEN code ELSE NULL
            IN /\ receipts'[r].detected_currency = det
               /\ receipts'[r].currency =
                    IF loaded[w].currency = "AUTO"
                    THEN (IF det # NULL THEN det ELSE "USD")
                    ELSE receipts[r].currency]_vars

\* a receipt uploaded with AUTO was resolved from an extractor answer with
\* surrounding whitespace and lower case
C40_Witness ==
  \E w \in Workers :
    /\ wpc[w] = "mark_done"
    /\ Holding(w)
    /\ receipts[row[w].receipt_id].status = "done"
    /\ receipts[row[w].receipt_id].merchant = row[w].id
    /\ receipts[row[w].receipt_id].detected_currency = "CHF"
    /\ receipts[row[w].receipt_id].currency = "CHF"
    /\ receipts[row[w].receipt_id].version = row[w].receipt_version

Init ==
  /\ now = 0
  /\ receipts = <<>>
  /\ receipt_items = <<>>
  /\ tasks = <<>>
  /\ wpc = [w \in Workers |-> "poll"]
  /\ wnow = [w \in Workers |-> 0]
  /\ row = [w \in Workers |-> NoRow]
  /\ loaded = [w \in Workers |-> NoReceipt]
  /\ parsed = [w \in Workers |-> NULL]
  /\ werr = [w \in Workers |-> NULL]
  /\ reqs = [q \in AllRequests |-> IdleReq]
  /\ reclaimed = {}

\* one iteration of main() for worker w, statement by statement
WorkerStep(w) ==
  \/ RequeueStale(w)
  \/ Claim(w)
  \/ ClaimNone(w)
  \/ SetReceiptProcessing(w)
  \/ SetReceiptProcessingFails(w)
  \/ ProcessLoad(w)
  \/ ProcessBegin(w)
  \/ ExtractText(w)
  \/ ExtractTextFails(w)
  \/ \E c \in ParsedCurrencies : Structure(w, c)
  \/ StructureFails(w)
  \/ CommitResult(w)
  \/ MarkDone(w)
  \/ MarkFailed(w)

\* the outcomes of an iteration of main() in which the claimed row does not
\* parse or the store raises while the result or the finalize is written
FaultStep(w) ==
  \/ ParseFails(w)
  \/ CommitResultFails(w)
  \/ MarkDoneFails(w)
  \/ MarkFailedFails(w)

\* POST /receipts/{id}/reprocess
ReprocessStep(q) ==
  \/ \E r \in ReceiptIds, c \in ReprocessCurrencies : ReprocessBegin(q, r, c)
  \/ ReprocessCommit(q)
  \/ ReprocessFails(q)
  \/ ReprocessReturn(q)

Next ==
  \/ \E c \in UploadCurrencies : Upload(c)
  \/ \E d \in TickSteps : Tick(d)
  \/ \E w \in Workers : WorkerStep(w)
  \/ \E q \in Requests : ReprocessStep(q)

\* the queue alone: uploads and workers, no reprocess request
NextQueue ==
  \/ \E c \in UploadCurrencies : Upload(c)
  \/ \E d \in TickSteps : Tick(d)
  \/ \E w \in Workers : WorkerStep(w)

\* the queue with its faults: uploads and workers whose claimed row may not
\* parse and whose store may raise
NextFaults ==
  \/ \E c \in UploadCurrencies : Upload(c)
  \/ \E d \in TickSteps : Tick(d)
  \/ \E w \in Workers : WorkerStep(w) \/ FaultStep(w)

\* worker-1 may die holding a task while worker-2 keeps polling
NextRecovery ==
  \/ \E c \in UploadCurrencies : Upload(c)
  \/ \E d \in CoarseTickSteps : Tick(d)
  \/ WorkerStep("worker-1")
  \/ Crash("worker-1")
  \/ WorkerStep("worker-2")

\* the writers of a receipt's items at one instant of the clock: two
\* workers, whose result commit may raise, and reprocess requests
NextItems ==
  \/ \E c \in UploadCurrencies : Upload(c)
  \/ \E w \in Workers : WorkerStep(w) \/ CommitResultFails(w)
  \/ \E q \in Requests : ReprocessStep(q)

\* POST /receipts/{id}/reprocess?currency=...
ReprocessWith(q) ==
  \E r \in ReceiptIds, c \in SuppliedCurrencies : ReprocessBegin(q, r, c)

\* uploads, a single running worker and reprocess requests served
\* concurrently, with and without a currency, at one instant of the clock
NextRequests ==
  \/ \E c \in UploadCurrencies : Upload(c)
  \/ WorkerStep("worker-1")
  \/ \E q \in AllRequests : ReprocessStep(q) \/ ReprocessWith(q)

\* uploads, reprocess requests and a single running worker
NextSolo ==
  \/ \E c \in UploadCurrencies : Upload(c)
  \/ \E q \in Requests : UploadFails(q) \/ UploadReturn(q)
  \/ \E d \in CoarseTickSteps : Tick(d)
  \/ WorkerStep("worker-1")
  \/ \E q \in Requests : ReprocessStep(q)

\* two workers and the clock in backoff steps, up to the first retry
NextRetry ==
  \/ \E c \in UploadCurrencies : Upload(c)
  \/ TickRetry(BackoffSeconds(1))
  \/ \E w \in Workers : WorkerStep(w)

\* worker-1 may die at any point of an execution; worker-2 reclaims and
\* executes the task again, the extractor answering anew
NextReexec ==
  \/ \E c \in UploadCurrencies : Upload(c)
  \/ \E d \in CoarseTickSteps : Tick(d)
  \/ WorkerStep("worker-1")
  \/ Crash("worker-1")
  \/ WorkerStep("worker-2")
  \/ \E w \in Workers : \E c \in ReexecCurrencies : Structure(w, c)

\* one worker process that may die while it holds a task and is started again
NextAttempts ==
  \/ \E c \in UploadCurrencies : Upload(c)
  \/ TickLease
  \/ WorkerStep("worker-1")
  \/ Crash("worker-1")
  \/ Restart("worker-1")

\* one worker executing uploads of either kind of requested currency, the
\* extractor answering with any of its currency strings
NextCurrency ==
  \/ \E c \in RequestedCurrencies : Upload(c)
  \/ \E d \in CoarseTickSteps : Tick(d)
  \/ WorkerStep("worker-1")
  \/ \E c \in ExtractorCurrencies : Structure("worker-1", c)

\* one worker, one reprocess client and one status reader
NextRead ==
  \/ \E c \in UploadCurrencies : Upload(c)
  \/ \E d \in CoarseTickSteps : Tick(d)
  \/ WorkerStep("worker-1")
  \/ ReprocessStep("req-1")
  \/ \E r \in 1..MaxReceipts : GetReceiptTask("req-2", r)
  \/ GetReceiptTaskReturn("req-2")

Spec == Init /\ [][Next]_vars
SpecQueue == Init /\ [][NextQueue]_vars
SpecSolo == Init /\ [][NextSolo]_vars
SpecRequests == Init /\ [][NextRequests]_vars
SpecFaults == Init /\ [][NextFaults]_vars
SpecRead == Init /\ [][NextRead]_vars
\* every worker process keeps running its loop and the clock advances
SpecRetry ==
  /\ Init /\ [][NextRetry]_vars
  /\ \A w \in Workers : WF_vars(WorkerStep(w))
  /\ WF_vars(TickRetry(BackoffSeconds(1)))
SpecReexec == Init /\ [][NextReexec]_vars
SpecAttempts == Init /\ [][NextAttempts]_vars
SpecCurrency == Init /\ [][NextCurrency]_vars
SpecItems == Init /\ [][NextItems]_vars
\* worker-2's loop keeps running and the clock keeps advancing
SpecRecovery ==
  /\ Init /\ [][NextRecovery]_vars
  /\ WF_vars(WorkerStep("worker-2"))
  /\ WF_vars(\E d \in CoarseTickSteps : Tick(d))
====
